---- MODULE Spec2Model ----
(***************************************************************************)
(* Conv2dFunctor<DeviceType::NEON, float>::operator() of                   *)
(* mace/kernels/arm/conv_2d.cc: shape resolution, strategy selection,      *)
(* tiling, the scratch arena, padding, execution, unpacking, bias and      *)
(* activation.                                                             *)
(*                                                                         *)
(* A configuration c is a record                                           *)
(*   N, C, H, W      the input tensor's shape (NCHW)                       *)
(*   M, FC, KH, KW   the filter tensor's shape [OutC, InC, KH, KW]         *)
(*   SH, SW, DH, DW  strides_ and dilations_                               *)
(*   mode, PH, PW    padding_type_ ("SAME", "VALID") when paddings_ is     *)
(*                   empty, else mode = "EXPLICIT" and paddings_ = PH, PW  *)
(* Tensor elements are integers; sizes handed to the arena are bytes.      *)
(*                                                                         *)
(* Specifications:                                                         *)
(*   Spec        repeated serialized calls on one instance, shapes only,   *)
(*               the arena's reallocation may fail                         *)
(*   SpecPlan    one call, every padding and input extent of the bounds    *)
(*   SpecSelect  one call, every filter, stride, dilation, channel count   *)
(*   SpecData    calls with the tensors' contents and the arena's memory   *)
(*   SpecConc    calls from two threads, one arena operation per step      *)
(*   SpecOmp     one parallel loop nest on two threads, one access per step*)
(*   SpecSize    the Winograd scratch sizing on large shapes, integers in  *)
(*               their C++ width                                           *)
(***************************************************************************)
EXTENDS Integers, Sequences, FiniteSets, TLC

\* ------------------------------------------------------------ constants
USE_WINOGRAD == 1
WINOGRAD_OUT_TILE_SIZE == 6
WinogradMinChannels == 8
SizeofFloat == 4
Fused3x3S1TileH == 2
Fused3x3S1TileW == 4
Fused3x3S2TileW == 4

\* ------------------------------------------------------------ helpers
Max(a, b) == IF a >= b THEN a ELSE b

Min(a, b) == IF a <= b THEN a ELSE b

\* RoundUp<index_t>(value, factor)
RoundUp(value, factor) == ((value + factor - 1) \div factor) * factor

\* INT_MAX and INT_MIN of the 32-bit int
Int32Max == 2147483647

Int32Min == (0 - Int32Max) - 1

\* a wider value stored into an int wraps modulo 2^32 into
\* [Int32Min, Int32Max] (one wrap: the operands are products of two ints)
ToInt32(x) ==
  IF x > Int32Max THEN ((x - Int32Max) - 1) + Int32Min
  ELSE IF x < Int32Min THEN ((x - Int32Min) + 1) + Int32Max
  ELSE x

\* std::accumulate(first, last, 1, std::multiplies<index_t>()): the
\* accumulator has the type of the initial value, the int literal 1, so each
\* product is stored back into an int.
RECURSIVE AccumulateFrom(_, _, _)
AccumulateFrom(shape, i, acc) ==
  IF i > Len(shape) THEN acc
  ELSE AccumulateFrom(shape, i + 1, ToInt32(acc * shape[i]))

Accumulate(shape) == AccumulateFrom(shape, 1, 1)

\* ------------------------------------------------------------ ShapeResolver
\* effective kernel extent (k - 1) * dilation + 1
KExtent(k, dilation) == (k - 1) * dilation + 1

\* the padding total SAME resolves to in one spatial dimension
SamePadding(in, k, stride, dilation) ==
  Max(0, ((in - 1) \div stride) * stride + KExtent(k, dilation) - in)

\* CalcNCHWPaddingAndOutputSize (paddings_ empty) or paddings = paddings_:
\* the total padding of each spatial dimension
paddings(c) ==
  CASE c.mode = "EXPLICIT" -> <<c.PH, c.PW>>
    [] c.mode = "VALID" -> <<0, 0>>
    [] c.mode = "SAME" -> <<SamePadding(c.H, c.KH, c.SH, c.DH),
                            SamePadding(c.W, c.KW, c.SW, c.DW)>>

\* output spatial size = floor((in + total_pad - dilation*(k-1) - 1)/stride) + 1
OutSize(in, pad, k, stride, dilation) ==
  ((in + pad - KExtent(k, dilation)) \div stride) + 1

\* output_shape = [N, OutC, Hout, Wout]
output_shape(c, pads) ==
  <<c.N, c.M,
    OutSize(c.H, pads[1], c.KH, c.SH, c.DH),
    OutSize(c.W, pads[2], c.KW, c.SW, c.DW)>>

\* a configuration whose requested output size is positive
ValidConfig(c) ==
  LET os == output_shape(c, paddings(c))
  IN  os[3] >= 1 /\ os[4] >= 1

\* faulty variant: the filter's input-channel count is not checked
ChecksPass_no_channel_check(c) ==
  LET os == output_shape(c, paddings(c))
  IN  c.M = os[2] /\ os[1] = c.N

\* MACE_CHECK(filter->dim(0) == channels), MACE_CHECK(filter->dim(1) ==
\* input_channels), MACE_CHECK(batch == input_batch)
ChecksPass(c) ==
  LET os == output_shape(c, paddings(c))
  IN  /\ c.M = os[2]
      /\ c.FC = c.C
      /\ os[1] = c.N

\* ------------------------------------------------------------ StrategySelector
\* faulty variant: the channel threshold is exclusive
use_winograd_strict(fh, fw, sh, sw, dh, dw, input_channels, channels) ==
  /\ USE_WINOGRAD # 0
  /\ fh = 3 /\ fw = 3
  /\ sh = 1 /\ sw = 1 /\ dh = 1 /\ dw = 1
  /\ input_channels > WinogradMinChannels
  /\ channels > WinogradMinChannels

use_winograd(fh, fw, sh, sw, dh, dw, input_channels, channels) ==
  /\ USE_WINOGRAD # 0
  /\ fh = 3 /\ fw = 3
  /\ sh = 1 /\ sw = 1 /\ dh = 1 /\ dw = 1
  /\ input_channels >= WinogradMinChannels
  /\ channels >= WinogradMinChannels

use_neon_3x3_s1(fh, fw, sh, sw, dh, dw) ==
  /\ fh = 3 /\ fw = 3
  /\ sh = 1 /\ sw = 1 /\ dh = 1 /\ dw = 1

use_neon_3x3_s2(fh, fw, sh, sw, dh, dw) ==
  /\ fh = 3 /\ fw = 3
  /\ sh = 2 /\ sw = 2 /\ dh = 1 /\ dw = 1

use_neon_1x1_s1(fh, fw, sh, sw, dh, dw) ==
  /\ fh = 1 /\ fw = 1
  /\ sh = 1 /\ sw = 1 /\ dh = 1 /\ dw = 1

\* the branch of the tiling if-chain (lines 178-228) that is taken
PlanBranch(winograd, s1, s2) ==
  IF winograd THEN "winograd"
  ELSE IF s1 THEN "neon_3x3_s1"
  ELSE IF s2 THEN "neon_3x3_s2"
  ELSE "none"

\* the branch of the scratch sizing (lines 236-248) that is taken
SizingBranch(winograd) == IF winograd THEN "winograd" ELSE "none"

\* the branch of the conv_func if-chain (lines 271-350) that is taken
ExecBranch(winograd, s1, s2, k1) ==
  IF winograd THEN "winograd"
  ELSE IF s1 THEN "neon_3x3_s1"
  ELSE IF s2 THEN "neon_3x3_s2"
  ELSE IF k1 THEN "neon_1x1_s1"
  ELSE "generic"

\* ------------------------------------------------------------ TilingPlanner
extra_output_height(branch, height) ==
  CASE branch = "winograd" -> RoundUp(height, WINOGRAD_OUT_TILE_SIZE)
    [] branch = "neon_3x3_s1" -> RoundUp(height, Fused3x3S1TileH)
    [] branch = "neon_3x3_s2" -> height
    [] OTHER -> height

\* faulty variant: the fused 3x3 stride-2 width is tiled by 2 instead of 4
extra_output_width_s2_half(branch, width) ==
  CASE branch = "winograd" -> RoundUp(width, WINOGRAD_OUT_TILE_SIZE)
    [] branch = "neon_3x3_s1" -> RoundUp(width, Fused3x3S1TileW)
    [] branch = "neon_3x3_s2" -> RoundUp(width, 2)
    [] OTHER -> width

extra_output_width(branch, width) ==
  CASE branch = "winograd" -> RoundUp(width, WINOGRAD_OUT_TILE_SIZE)
    [] branch = "neon_3x3_s1" -> RoundUp(width, Fused3x3S1TileW)
    [] branch = "neon_3x3_s2" -> RoundUp(width, Fused3x3S2TileW)
    [] OTHER -> width

\* extra_input_height and extra_input_width
extra_input(branch, padded_input, extra_output) ==
  CASE branch = "winograd" -> Max(padded_input, extra_output + 2)
    [] branch = "neon_3x3_s1" -> Max(padded_input, extra_output + 2)
    [] branch = "neon_3x3_s2" -> Max(padded_input, (extra_output - 1) * 2 + 3)
    [] OTHER -> padded_input

\* pad_top and pad_left: paddings[i] >> 1 on a non-negative int
pad_before(total) == total \div 2

\* faulty variant: the tiling shortfall is not added to the after-padding
pad_after_no_shortfall(branch, total, extra_in, padded_input) ==
  total - pad_before(total)

\* pad_bottom and pad_right
pad_after(branch, total, extra_in, padded_input) ==
  LET natural == total - pad_before(total)
  IN  IF branch # "none" /\ extra_in # padded_input
      THEN ToInt32(natural + (extra_in - padded_input))
      ELSE natural

tile_count(extra_out_h, extra_out_w) ==
  (extra_out_h \div WINOGRAD_OUT_TILE_SIZE)
    * (extra_out_w \div WINOGRAD_OUT_TILE_SIZE)

in_tile_area == (WINOGRAD_OUT_TILE_SIZE + 2) * (WINOGRAD_OUT_TILE_SIZE + 2)

\* transformed_input_shape and transformed_output_shape
transformed_shape(branch, batch, chans, tiles) ==
  IF branch = "winograd" THEN <<in_tile_area, batch, chans, tiles>> ELSE <<>>

transformed_filter_shape(branch, channels, input_channels) ==
  IF branch = "winograd"
  THEN <<in_tile_area, channels, input_channels>> ELSE <<>>

\* ------------------------------------------------------------ scratch sizing
\* index_t is 64 bits wide: a product of in-range extents does not wrap

\* transformed_input_size and transformed_output_size
transformed_size(sizing, shape) ==
  IF sizing = "winograd" THEN Accumulate(shape) * SizeofFloat ELSE 0

\* faulty variant: the padded input is built only when both extents differ
NeedPaddedInput_both(extra_in_h, extra_in_w, input_height, input_width) ==
  extra_in_h # input_height /\ extra_in_w # input_width

\* the condition of lines 249 and 354
NeedPaddedInput(extra_in_h, extra_in_w, input_height, input_width) ==
  extra_in_h # input_height \/ extra_in_w # input_width

\* the condition of lines 255, 366 and 378
NeedPaddedOutput(extra_out_h, extra_out_w, height, width) ==
  extra_out_h # height \/ extra_out_w # width

padded_input_size(need, batch, input_channels, input_height, input_width, top, bottom, left, right) ==
  IF need
  THEN batch * input_channels * (input_height + top + bottom)
         * (input_width + left + right) * SizeofFloat
  ELSE 0

padded_output_size(need, batch, channels, extra_out_h, extra_out_w) ==
  IF need
  THEN batch * channels * extra_out_h * extra_out_w * SizeofFloat
  ELSE 0

\* lines 102-260 of operator(): every local the call derives from the
\* tensors' shapes before it touches the arena
Plan(c) ==
  LET pads == paddings(c)
      os == output_shape(c, pads)
      winograd == use_winograd(c.KH, c.KW, c.SH, c.SW, c.DH, c.DW, c.C, os[2])
      s1 == use_neon_3x3_s1(c.KH, c.KW, c.SH, c.SW, c.DH, c.DW)
      s2 == use_neon_3x3_s2(c.KH, c.KW, c.SH, c.SW, c.DH, c.DW)
      k1 == use_neon_1x1_s1(c.KH, c.KW, c.SH, c.SW, c.DH, c.DW)
      branch == PlanBranch(winograd, s1, s2)
      sizing == SizingBranch(winograd)
      pih == c.H + pads[1]
      piw == c.W + pads[2]
      eoh == extra_output_height(branch, os[3])
      eow == extra_output_width(branch, os[4])
      eih == extra_input(branch, pih, eoh)
      eiw == extra_input(branch, piw, eow)
      top == pad_before(pads[1])
      left == pad_before(pads[2])
      bottom == pad_after(branch, pads[1], eih, pih)
      right == pad_after(branch, pads[2], eiw, piw)
      tiles == tile_count(eoh, eow)
      tis == transformed_shape(branch, os[1], c.C, tiles)
      tos == transformed_shape(branch, os[1], os[2], tiles)
      need_in == NeedPaddedInput(eih, eiw, c.H, c.W)
      need_out == NeedPaddedOutput(eoh, eow, os[3], os[4])
      ti_size == transformed_size(sizing, tis)
      to_size == transformed_size(sizing, tos)
      pi_size == padded_input_size(need_in, os[1], c.C, c.H, c.W,
                                   top, bottom, left, right)
      po_size == padded_output_size(need_out, os[1], os[2], eoh, eow)
  IN  [paddings |-> pads,
       batch |-> os[1], channels |-> os[2], height |-> os[3], width |-> os[4],
       input_batch |-> c.N, input_channels |-> c.C,
       input_height |-> c.H, input_width |-> c.W,
       filter_h |-> c.KH, filter_w |-> c.KW,
       stride_h |-> c.SH, stride_w |-> c.SW,
       dilation_h |-> c.DH, dilation_w |-> c.DW,
       padded_input_height |-> pih, padded_input_width |-> piw,
       planned |-> branch, sized |-> sizing,
       executed |-> ExecBranch(winograd, s1, s2, k1),
       extra_output_height |-> eoh, extra_output_width |-> eow,
       extra_input_height |-> eih, extra_input_width |-> eiw,
       pad_top |-> top, pad_bottom |-> bottom,
       pad_left |-> left, pad_right |-> right,
       tile_count |-> tiles,
       transformed_input_shape |-> tis, transformed_output_shape |-> tos,
       transformed_filter_shape |->
         transformed_filter_shape(branch, os[2], c.C),
       need_padded_input |-> need_in, need_padded_output |-> need_out,
       transformed_input_size |-> ti_size,
       transformed_output_size |-> to_size,
       padded_input_size |-> pi_size, padded_output_size |-> po_size,
       total_scratch_size |-> ti_size + to_size + pi_size + po_size]

\* ------------------------------------------------------------ ScratchArena
\* An arena frame a is [offset, size, views, log]: the cursor, the capacity,
\* the views the running call holds and the operations the call has done.
Rewind(a) == [a EXCEPT !.offset = 0, !.log = Append(@, "Rewind")]

\* grows the capacity when the request exceeds it and reports whether the
\* reallocation succeeded; the capacity never shrinks
GrowSize(a, size, alloc_ok) ==
  [a EXCEPT !.size = IF size > @ /\ alloc_ok THEN size ELSE @,
            !.log = Append(@, IF size > a.size /\ ~alloc_ok
                              THEN "GrowSizeFailed" ELSE "GrowSize")]

\* hands out the view [offset, offset + size) and advances the cursor
Scratch(a, name, size) ==
  [a EXCEPT !.views = Append(@, [name |-> name, off |-> a.offset, size |-> size]),
            !.offset = @ + size,
            !.log = Append(@, "Scratch")]

\* lines 261-268 of operator()
InitScratch(a, p, alloc_ok) ==
  LET a1 == Rewind(a)
      a2 == GrowSize(a1, p.total_scratch_size, alloc_ok)
      a3 == Scratch(a2, "transformed_input", p.transformed_input_size)
      a4 == Scratch(a3, "transformed_output", p.transformed_output_size)
      a5 == Scratch(a4, "padded_input", p.padded_input_size)
  IN  Scratch(a5, "padded_output", p.padded_output_size)

\* ------------------------------------------------------------ bounds
MaxBatch == 2
MaxHeight == 7
MaxWidth == 5
MaxPad == 2
MaxStride == 2
MaxDilation == 2
MaxTransforms == 2

KernelSizes == {1, 3}

ChannelCounts == {1, WinogradMinChannels - 1, WinogradMinChannels}

PaddingChoices ==
  {[mode |-> m, PH |-> 0, PW |-> 0] : m \in {"SAME", "VALID"}}
    \cup {[mode |-> "EXPLICIT", PH |-> ph, PW |-> pw] :
            ph \in 0..MaxPad, pw \in 0..MaxPad}

\* an operator instance: the bound filter's shape, strides_, dilations_ and
\* padding_type_ / paddings_
Instance(m, fc, kh, kw, sh, sw, dh, dw, p) ==
  [M |-> m, FC |-> fc, KH |-> kh, KW |-> kw, SH |-> sh, SW |-> sw,
   DH |-> dh, DW |-> dw, mode |-> p.mode, PH |-> p.PH, PW |-> p.PW]

\* every filter size, stride, dilation and channel count of the bounds,
\* under SAME padding: the arguments of the strategy selection
SelectionInstances ==
  {Instance(m, fc, kh, kw, sh, sw, dh, dw,
            [mode |-> "SAME", PH |-> 0, PW |-> 0]) :
     m \in ChannelCounts, fc \in ChannelCounts,
     kh \in KernelSizes, kw \in KernelSizes,
     sh \in 1..MaxStride, sw \in 1..MaxStride,
     dh \in 1..MaxDilation, dw \in 1..MaxDilation}

\* one filter per strategy (and two generic ones), under a given padding
StrategyInstances(p) ==
  {Instance(WinogradMinChannels, WinogradMinChannels, 3, 3, 1, 1, 1, 1, p),
   Instance(2, 1, 3, 3, 1, 1, 1, 1, p),
   Instance(1, 2, 3, 3, 2, 2, 1, 1, p),
   Instance(2, 2, 1, 1, 1, 1, 1, 1, p),
   Instance(1, 1, 3, 1, 1, 2, 1, 1, p),
   Instance(2, 1, 3, 3, 1, 1, 2, 2, p)}

\* the instances of the single-call specification
PlanInstances == UNION {StrategyInstances(p) : p \in PaddingChoices}

\* the instances of the specification of repeated calls
ArenaInstances ==
  UNION {StrategyInstances(p) :
           p \in {[mode |-> "SAME", PH |-> 0, PW |-> 0],
                  [mode |-> "VALID", PH |-> 0, PW |-> 0],
                  [mode |-> "EXPLICIT", PH |-> 1, PW |-> MaxPad]}}

\* input extents <<height, width>>: all of the bounds, and a few of them
AllShapes == (1..MaxHeight) \X (1..MaxWidth)

FewShapes == {1, 4, MaxHeight} \X {2, MaxWidth}

\* the configuration of one call: the instance and the input tensor's shape
Config(i, n, ch, h, w) ==
  [N |-> n, C |-> ch, H |-> h, W |-> w,
   M |-> i.M, FC |-> i.FC, KH |-> i.KH, KW |-> i.KW,
   SH |-> i.SH, SW |-> i.SW, DH |-> i.DH, DW |-> i.DW,
   mode |-> i.mode, PH |-> i.PH, PW |-> i.PW]

\* ------------------------------------------------------------ state
VARIABLES
  inst,                    \* the operator instance's constructor arguments
  scratch_,                \* the arena: [offset, size] in bytes
  is_filter_transformed_,  \* the filter-transform cache's flag
  transformed_filter_,     \* the shape of the cached transformed filter
  transform_count,         \* filter transforms WinoGradConv3x3s1 has executed
  call,                    \* the last call of operator()
  params,                  \* the filter and bias tensors, activation_ and
                           \* relux_max_limit_ (tracked by SpecData only)
  mem,                     \* the arena's buffer, one cell per float
  io,                      \* the tensors of the last call
  serialized,              \* whether the callers serialize their calls
  calls,                   \* the calls in flight, by thread (SpecConc only)
  omp                      \* the parallel loop nest in execution (SpecOmp only)

vars ==
  <<inst, scratch_, is_filter_transformed_, transformed_filter_,
    transform_count, call, params, mem, io, serialized, calls, omp>>

\* the tensors' contents are not tracked
NoParams == [tracked |-> FALSE]

NoIO == [calls |-> 0]

\* no parallel loop nest is tracked
NoRegion == [active |-> FALSE]

NoCall ==
  [c |-> <<>>, plan |-> <<>>, result |-> "none", log |-> <<>>,
   views |-> <<>>, touched |-> {}, strategy_uses |-> {},
   flag_passed |-> FALSE, resized |-> FALSE]

\* ------------------------------------------------------------ Executor
\* WinoGradConv3x3s1 transforms the filter into transformed_filter_ iff it
\* is passed is_filter_transformed = false
WinoGradTransforms(is_filter_transformed) ==
  IF is_filter_transformed THEN 0 ELSE 1

\* lines 274-276: the cache is resized only while the flag is false
ResizesTransformedFilter(p, flag) == p.executed = "winograd" /\ ~flag

\* faulty variant: conv_func leaves the flag as it was
FlagAfterConv_unset(p, flag) == flag

\* line 292: conv_func sets the flag after WinoGradConv3x3s1 returns
FlagAfterConv(p, flag) == IF p.executed = "winograd" THEN TRUE ELSE flag

\* the scratch views the call dereferences: the transformed buffers are
\* resized and handed to WinoGradConv3x3s1 (lines 272-289), the padded input
\* is cleared and filled (lines 354-362), the padded output is resized and
\* cleared (lines 366-370)
TouchedViews(p) ==
  (IF p.executed = "winograd"
   THEN {"transformed_input", "transformed_output"} ELSE {})
    \cup (IF p.need_padded_input THEN {"padded_input"} ELSE {})
    \cup (IF p.need_padded_output THEN {"padded_output"} ELSE {})

\* the scratch views the strategy itself reads or writes: Conv2dNeonK1x1S1
\* is passed input_data and output_data (lines 321-330), every other
\* strategy pad_input and pad_output
StrategyViews(p) ==
  IF p.executed = "neon_1x1_s1" THEN {}
  ELSE (IF p.executed = "winograd"
        THEN {"transformed_input", "transformed_output"} ELSE {})
         \cup (IF p.need_padded_input THEN {"padded_input"} ELSE {})
         \cup (IF p.need_padded_output THEN {"padded_output"} ELSE {})

\* lines 133-143: a contract violation ends the call in a fatal check
RejectedCall(c) ==
  [NoCall EXCEPT !.c = c, !.result = "fatal", !.log = <<"MACE_CHECK">>]

\* lines 145-409: the call from the tiling plan to the activation; the
\* function returns void
CompletedCall(c, p, a) ==
  [c |-> c, plan |-> p, result |-> "returned",
   log |-> Append(a.log, "conv_func"),
   views |-> a.views,
   touched |-> TouchedViews(p), strategy_uses |-> StrategyViews(p),
   flag_passed |-> is_filter_transformed_,
   resized |-> ResizesTransformedFilter(p, is_filter_transformed_)]

\* ------------------------------------------------------------ operator()
operator_call(c, alloc_ok) ==
  IF ~ChecksPass(c)
  THEN /\ call' = RejectedCall(c)
       /\ UNCHANGED <<inst, scratch_, is_filter_transformed_,
                      transformed_filter_, transform_count>>
  ELSE \E p \in {Plan(c)} :
       \E a \in {InitScratch([offset |-> scratch_.offset,
                              size |-> scratch_.size,
                              views |-> <<>>, log |-> <<>>], p, alloc_ok)} :
           /\ scratch_' = [offset |-> a.offset, size |-> a.size]
           /\ transformed_filter_' =
                IF ResizesTransformedFilter(p, is_filter_transformed_)
                THEN p.transformed_filter_shape ELSE transformed_filter_
           /\ transform_count' =
                IF p.executed = "winograd"
                THEN transform_count
                       + WinoGradTransforms(is_filter_transformed_)
                ELSE transform_count
           /\ is_filter_transformed_' =
                FlagAfterConv(p, is_filter_transformed_)
           /\ call' = CompletedCall(c, p, a)
           /\ UNCHANGED inst

\* a call of operator() on the instance with an input tensor of one of the
\* given extents; the arena's reallocation may fail when it has to grow
CallWith(shapes, may_fail) ==
  \E n \in 1..MaxBatch, ch \in {inst.FC, inst.FC + 1}, hw \in shapes,
     alloc_ok \in BOOLEAN :
    LET c == Config(inst, n, ch, hw[1], hw[2])
    IN  /\ ValidConfig(c)
        /\ alloc_ok
             \/ (may_fail /\ ChecksPass(c)
                   /\ Plan(c).total_scratch_size > scratch_.size)
        /\ operator_call(c, alloc_ok)
        /\ UNCHANGED <<params, mem, io, serialized, calls, omp>>

\* any call of a sequence of serialized calls
Call == transform_count < MaxTransforms /\ CallWith(FewShapes, TRUE)

\* the first call on a fresh instance
FirstCall == call.result = "none" /\ CallWith(AllShapes, FALSE)

SelectCall == call.result = "none" /\ CallWith(FewShapes, FALSE)

Constructed ==
  /\ scratch_ = [offset |-> 0, size |-> 0]
  /\ is_filter_transformed_ = FALSE
  /\ transformed_filter_ = <<>>
  /\ transform_count = 0
  /\ call = NoCall
  /\ mem = <<>>
  /\ io = NoIO
  /\ serialized = TRUE
  /\ calls = <<>>
  /\ omp = NoRegion

Init == inst \in ArenaInstances /\ params = NoParams /\ Constructed

Next == Call

Spec == Init /\ [][Next]_vars

InitPlan == inst \in PlanInstances /\ params = NoParams /\ Constructed

NextPlan == FirstCall

SpecPlan == InitPlan /\ [][NextPlan]_vars

InitSelect ==
  inst \in SelectionInstances /\ params = NoParams /\ Constructed

NextSelect == SelectCall

SpecSelect == InitSelect /\ [][NextSelect]_vars

\* ------------------------------------------------------------ tensor data
\* A buffer is a sequence of integers; element i of the C array is buf[i + 1].

\* a read at an element offset: past the end of the buffer it is out of
\* bounds and yields whatever the memory behind the buffer holds
Read(buf, i, junk) == IF i >= 0 /\ i < Len(buf) THEN buf[i + 1] ELSE junk

\* a buffer given by its cells, as a sequence
Buffer(cells) == cells \o <<>>

\* Tensor::Clear: every cell of the tensor's buffer is set to zero
Clear(buf) == Buffer([i \in 1..Len(buf) |-> 0])

\* Tensor::Resize on an owned buffer: the contents survive only when the
\* size is unchanged, a reallocated buffer holds arbitrary values
Resize(buf, size, junk) ==
  IF Len(buf) = size THEN buf ELSE Buffer([i \in 1..size |-> junk])

\* the cells [off, off + size) of the arena's buffer, in float elements
View(memory, off, size) == Buffer([i \in 1..size |-> memory[off + i]])

\* the arena's buffer with buf stored at element offset off
Store(memory, off, buf) ==
  Buffer([i \in 1..Len(memory) |->
            IF i > off /\ i <= off + Len(buf) THEN buf[i - off]
            ELSE memory[i]])

\* the buffer behind the arena after GrowSize: a reallocation hands out
\* uninitialised memory, otherwise the old contents stay
GrownBuffer(memory, size, junk) ==
  IF size > Len(memory) * SizeofFloat
  THEN Buffer([i \in 1..(size \div SizeofFloat) |-> junk])
  ELSE memory

\* ConstructNCHWInputWithSpecificPadding: the input copied into dest at
\* (pad_top, pad_left) of every channel plane; no other cell is written
ConstructNCHWInputWithSpecificPadding(input, planes, in_height, in_width, pad_top, pad_bottom, pad_left, pad_right, dest) ==
  LET out_height == in_height + pad_top + pad_bottom
      out_width == in_width + pad_left + pad_right
  IN  Buffer([o \in 1..Len(dest) |->
         LET w == (o - 1) % out_width
             h == ((o - 1) \div out_width) % out_height
             pl == (o - 1) \div (out_width * out_height)
         IN  IF /\ pl < planes
                /\ h >= pad_top /\ h < pad_top + in_height
                /\ w >= pad_left /\ w < pad_left + in_width
             THEN input[(pl * in_height + (h - pad_top)) * in_width
                          + (w - pad_left) + 1]
             ELSE dest[o]])

\* the three inner loops of Conv2dNCHW (lines 41-54) for one output element
RECURSIVE DotW(_, _, _, _, _, _, _, _)
DotW(input, filter, in_base, filter_base, dilation_w, filter_width, kw, junk) ==
  IF kw = filter_width THEN 0
  ELSE Read(input, in_base + kw * dilation_w, junk)
         * filter[filter_base + kw + 1]
         + DotW(input, filter, in_base, filter_base, dilation_w,
                filter_width, kw + 1, junk)

RECURSIVE DotH(_, _, _, _, _, _, _, _)
DotH(input, filter, d, in_plane, filter_plane, iw0, kh, junk) ==
  IF kh = d.filter_height THEN 0
  ELSE DotW(input, filter,
            (in_plane + kh * d.dilation_h) * d.in_width + iw0,
            (filter_plane + kh) * d.filter_width,
            d.dilation_w, d.filter_width, 0, junk)
         + DotH(input, filter, d, in_plane, filter_plane, iw0, kh + 1, junk)

RECURSIVE DotC(_, _, _, _, _, _, _, _, _)
DotC(input, filter, d, b, m, h, w, c, junk) ==
  IF c = d.in_channels THEN 0
  ELSE DotH(input, filter, d,
            (b * d.in_channels + c) * d.in_height + h * d.stride_h,
            (m * d.in_channels + c) * d.filter_height,
            w * d.stride_w, 0, junk)
         + DotC(input, filter, d, b, m, h, w, c + 1, junk)

\* the arguments of a convolution kernel other than its buffers
Dims(batch, in_height, in_width, in_channels, out_height, out_width, out_channels, filter_height, filter_width, stride_h, stride_w, dilation_h, dilation_w) ==
  [batch |-> batch, in_height |-> in_height, in_width |-> in_width,
   in_channels |-> in_channels, out_height |-> out_height,
   out_width |-> out_width, out_channels |-> out_channels,
   filter_height |-> filter_height, filter_width |-> filter_width,
   stride_h |-> stride_h, stride_w |-> stride_w,
   dilation_h |-> dilation_h, dilation_w |-> dilation_w]

\* Conv2dNCHW: output[out_offset] += input[in_offset] * filter[filter_offset]
\* for every out_offset of [batch, out_channels, out_height, out_width]
Conv2dNCHW(input, filter, d, output, junk) ==
  Buffer([o \in 1..Len(output) |->
     LET w == (o - 1) % d.out_width
         h == ((o - 1) \div d.out_width) % d.out_height
         m == ((o - 1) \div (d.out_width * d.out_height)) % d.out_channels
         b == (o - 1) \div (d.out_width * d.out_height * d.out_channels)
     IN  IF b < d.batch
         THEN output[o] + DotC(input, filter, d, b, m, h, w, 0, junk)
         ELSE output[o]])

\* ------------------------------------------------------------ microkernels
\* The fused kernels and WinoGradConv3x3s1 are direct convolutions over the
\* buffers and extents they are passed, and overwrite their output.
Conv2dNeonK3x3S1(input, filter, batch, in_height, in_width, in_channels, out_height, out_width, out_channels, output, junk) ==
  Conv2dNCHW(input, filter,
             Dims(batch, in_height, in_width, in_channels, out_height,
                  out_width, out_channels, 3, 3, 1, 1, 1, 1),
             Clear(output), junk)

Conv2dNeonK3x3S2(input, filter, batch, in_height, in_width, in_channels, out_height, out_width, out_channels, output, junk) ==
  Conv2dNCHW(input, filter,
             Dims(batch, in_height, in_width, in_channels, out_height,
                  out_width, out_channels, 3, 3, 2, 2, 1, 1),
             Clear(output), junk)

\* input and output share the spatial extents height and width
Conv2dNeonK1x1S1(input, filter, batch, height, width, in_channels, out_channels, output, junk) ==
  Conv2dNCHW(input, filter,
             Dims(batch, height, width, in_channels, height, width,
                  out_channels, 1, 1, 1, 1, 1, 1),
             Clear(output), junk)

\* the output extents are the input extents less 2, in whole tiles
WinoGradConv3x3s1(input, filter, batch, in_height, in_width, in_channels, out_channels, output, junk) ==
  Conv2dNCHW(input, filter,
             Dims(batch, in_height, in_width, in_channels, in_height - 2,
                  in_width - 2, out_channels, 3, 3, 1, 1, 1, 1),
             Clear(output), junk)

\* lines 271-350: the buffer the selected strategy writes, after it has run;
\* Conv2dNeonK1x1S1 is bound to input_data and output_data, every other
\* strategy to the arguments pad_input and pad_output of conv_func
conv_func(p, pad_input, pad_output, input_data, output_data, filter_data, junk) ==
  CASE p.executed = "winograd" ->
         WinoGradConv3x3s1(pad_input, filter_data, p.batch,
                           p.extra_input_height, p.extra_input_width,
                           p.input_channels, p.channels, pad_output, junk)
    [] p.executed = "neon_3x3_s1" ->
         Conv2dNeonK3x3S1(pad_input, filter_data, p.batch,
                          p.extra_input_height, p.extra_input_width,
                          p.input_channels, p.extra_output_height,
                          p.extra_output_width, p.channels, pad_output, junk)
    [] p.executed = "neon_3x3_s2" ->
         Conv2dNeonK3x3S2(pad_input, filter_data, p.batch,
                          p.extra_input_height, p.extra_input_width,
                          p.input_channels, p.extra_output_height,
                          p.extra_output_width, p.channels, pad_output, junk)
    [] p.executed = "neon_1x1_s1" ->
         Conv2dNeonK1x1S1(input_data, filter_data, p.batch, p.height,
                          p.width, p.input_channels, p.channels, output_data,
                          junk)
    [] p.executed = "generic" ->
         Conv2dNCHW(pad_input, filter_data,
                    Dims(p.batch, p.extra_input_height, p.extra_input_width,
                         p.input_channels, p.extra_output_height,
                         p.extra_output_width, p.channels, p.filter_h,
                         p.filter_w, p.stride_h, p.stride_w, p.dilation_h,
                         p.dilation_w),
                    pad_output, junk)

\* ------------------------------------------------------------ Unpacker
\* lines 377-394: rows of width floats are copied from the top-left
\* height x width region of every plane of pad_output_data
Unpack(p, pad_output_data, output_data) ==
  Buffer([o \in 1..Len(output_data) |->
     LET w == (o - 1) % p.width
         h == ((o - 1) \div p.width) % p.height
         c == ((o - 1) \div (p.width * p.height)) % p.channels
         b == (o - 1) \div (p.width * p.height * p.channels)
     IN  IF b < p.batch
         THEN pad_output_data[
                b * p.channels * p.extra_output_height * p.extra_output_width
                  + c * p.extra_output_height * p.extra_output_width
                  + h * p.extra_output_width + w + 1]
         ELSE output_data[o]])

\* ------------------------------------------------------------ PostProcessor
\* faulty variant: the bias is added twice
AddBias_twice(p, output_data, bias_data) ==
  IF bias_data = <<>> THEN output_data
  ELSE Buffer([o \in 1..Len(output_data) |->
          LET c == ((o - 1) \div (p.height * p.width)) % p.channels
          IN  output_data[o] + bias_data[c + 1] + bias_data[c + 1]])

\* lines 396-405: output_data[(b * channels + c) * height * width + i] +=
\* bias_data[c], when bias_data is not null (<<>>)
AddBias(p, output_data, bias_data) ==
  IF bias_data = <<>> THEN output_data
  ELSE Buffer([o \in 1..Len(output_data) |->
          LET c == ((o - 1) \div (p.height * p.width)) % p.channels
              b == (o - 1) \div (p.height * p.width * p.channels)
          IN  IF b < p.batch THEN output_data[o] + bias_data[c + 1]
              ELSE output_data[o]])

\* DoActivation(output_data, output_data, output->size(), activation_,
\* relux_max_limit_): identity, clamp at zero, or clamp into [0, limit]
DoActivation(output_data, activation, relux_max_limit) ==
  Buffer([o \in 1..Len(output_data) |->
     CASE activation = "NOOP" -> output_data[o]
       [] activation = "RELU" -> Max(output_data[o], 0)
       [] activation = "RELUX" ->
            Min(Max(output_data[o], 0), relux_max_limit)])

\* ------------------------------------------------------------ data path
\* the element offset and element count of a view of the arena
ViewOff(views, i) == views[i].off \div SizeofFloat

ViewLen(views, i) == views[i].size \div SizeofFloat

\* lines 118-119 and 261-408 on the tensors' contents: the output tensor is
\* resized and cleared, the arena grown, the padded input cleared and
\* filled, the padded output cleared, the strategy run, its result
\* unpacked, the bias added and the activation applied
RunData(p, views, input_data, old_output, memory, q) ==
  LET output0 ==
        Clear(Resize(old_output, p.batch * p.channels * p.height * p.width,
                     q.junk))
      mem0 == GrownBuffer(memory, p.total_scratch_size, q.junk)
      padded_input ==
        IF p.need_padded_input
        THEN ConstructNCHWInputWithSpecificPadding(
               input_data, p.input_batch * p.input_channels,
               p.input_height, p.input_width,
               p.pad_top, p.pad_bottom, p.pad_left, p.pad_right,
               Clear(View(mem0, ViewOff(views, 3), ViewLen(views, 3))))
        ELSE <<>>
      pad_input == IF p.need_padded_input THEN padded_input ELSE input_data
      padded_output0 ==
        IF p.need_padded_output
        THEN Clear(View(mem0, ViewOff(views, 4), ViewLen(views, 4)))
        ELSE <<>>
      pad_output0 == IF p.need_padded_output THEN padded_output0 ELSE output0
      written == conv_func(p, pad_input, pad_output0, input_data, output0,
                           q.filter, q.junk)
      to_output == p.executed = "neon_1x1_s1"
      pad_output1 ==
        IF to_output /\ p.need_padded_output THEN pad_output0 ELSE written
      output1 ==
        IF to_output \/ ~p.need_padded_output THEN written ELSE output0
      output2 ==
        IF p.need_padded_output THEN Unpack(p, pad_output1, output1)
        ELSE output1
      output3 == AddBias(p, output2, q.bias)
      output4 == DoActivation(output3, q.activation, q.limit)
      mem1 ==
        IF p.executed = "winograd"
        THEN Store(mem0, ViewOff(views, 1),
                   Buffer([i \in 1..(ViewLen(views, 1) + ViewLen(views, 2))
                             |-> q.junk]))
        ELSE mem0
      mem2 ==
        IF p.need_padded_input
        THEN Store(mem1, ViewOff(views, 3), padded_input) ELSE mem1
      mem3 ==
        IF p.need_padded_output
        THEN Store(mem2, ViewOff(views, 4), pad_output1) ELSE mem2
  IN  [input |-> input_data, padded_input |-> padded_input,
       handed_output |-> pad_output0, conv_output |-> output2,
       pre_activation |-> output3, output |-> output4, mem |-> mem3]

\* ------------------------------------------------------------ data bounds
MaxSeed == 1
MaxLimit == 2
MaxDataCalls == 2

\* what uninitialised or out-of-bounds memory may hold
JunkValues == {0, 5}

\* a tensor's contents: all zero for seed 0, else a ramp with both signs
InputData(seed, size) ==
  Buffer([i \in 1..size |->
            IF seed = 0 THEN 0 ELSE ((i * seed + seed) % 5) - 2])

FilterData(seed, size) ==
  Buffer([i \in 1..size |-> IF seed = 0 THEN 0 ELSE ((i * seed) % 7) - 3])

BiasData(kind, channels) ==
  IF kind = "none" THEN <<>> ELSE Buffer([c \in 1..channels |-> c - 2])

\* bias and activation of an instance
PostChoices ==
  {[bias |-> "none", activation |-> "NOOP", limit |-> 0],
   [bias |-> "ramp", activation |-> "NOOP", limit |-> 0],
   [bias |-> "ramp", activation |-> "RELU", limit |-> 0]}
    \cup {[bias |-> "ramp", activation |-> "RELUX", limit |-> l] :
            l \in 1..MaxLimit}

NoPost == [bias |-> "none", activation |-> "NOOP", limit |-> 0]

\* the tensors bound to instance i, what stray memory holds, and the input
\* shapes <<batch, height, width>> its callers use
Params(i, filter_seed, post, junk, shapes) ==
  [tracked |-> TRUE,
   filter |-> FilterData(filter_seed, i.M * i.FC * i.KH * i.KW),
   filter_seed |-> filter_seed,
   bias |-> BiasData(post.bias, i.M),
   activation |-> post.activation, limit |-> post.limit, junk |-> junk,
   shapes |-> shapes]

SamePad == [mode |-> "SAME", PH |-> 0, PW |-> 0]

ValidPad == [mode |-> "VALID", PH |-> 0, PW |-> 0]

ExplicitPad == [mode |-> "EXPLICIT", PH |-> 1, PW |-> MaxPad]

WinogradInstance(pd) ==
  Instance(WinogradMinChannels, WinogradMinChannels, 3, 3, 1, 1, 1, 1, pd)

\* the Winograd instance under SAME padding with a bias clamped into
\* [0, 1], and under explicit padding with no bias and no activation
WinogradDataInstances ==
  {[inst |-> WinogradInstance(SamePad),
    params |-> Params(WinogradInstance(SamePad), fs,
                      [bias |-> "ramp", activation |-> "RELUX",
                       limit |-> 1], j, {<<1, 4, MaxWidth>>})] :
     fs \in 0..MaxSeed, j \in JunkValues}
    \cup
  {[inst |-> WinogradInstance(ExplicitPad),
    params |-> Params(WinogradInstance(ExplicitPad), 1, NoPost, 5,
                      {<<2, 3, 3>>})]}

DataShapes == {<<1, 1, 2>>, <<MaxBatch, 3, 3>>, <<1, 4, MaxWidth>>}

\* every other strategy's instance under each padding and filter: without
\* bias and activation for each value of stray memory, and with each bias
\* and activation
DataInstances ==
  WinogradDataInstances \cup
  {[inst |-> i, params |-> Params(i, fs, e.post, e.junk, DataShapes)] :
     i \in {x \in UNION {StrategyInstances(pd) :
                           pd \in {SamePad, ValidPad, ExplicitPad}} :
              x.M < WinogradMinChannels},
     fs \in 0..MaxSeed,
     e \in {[post |-> NoPost, junk |-> j] : j \in JunkValues}
             \cup {[post |-> post, junk |-> 5] : post \in PostChoices}}

\* the input tensor is all zero (seed 0) or a ramp (seed 1)
InputSeeds == {0, 1}

\* ------------------------------------------------------------ SpecData
\* a call of operator() with an input tensor of the given shape and
\* contents, on the tensors' contents as well as their shapes; the input's
\* channel count is the filter's, so the call passes the checks and has a
\* plan
DataCall ==
  \E s \in params.shapes, seed \in InputSeeds :
    LET c == Config(inst, s[1], inst.FC, s[2], s[3])
    IN  /\ io.calls < MaxDataCalls
        /\ ValidConfig(c)
        /\ operator_call(c, TRUE)
        /\ \E r \in {RunData(call'.plan, call'.views,
                            InputData(seed, c.N * c.C * c.H * c.W),
                            IF io.calls = 0 THEN <<>> ELSE io.output,
                            mem, params)} :
             /\ mem' = r.mem
             /\ io' = [calls |-> io.calls + 1, seed |-> seed,
                       input |-> r.input,
                       padded_input |-> r.padded_input,
                       handed_output |-> r.handed_output,
                       conv_output |-> r.conv_output,
                       pre_activation |-> r.pre_activation,
                       output |-> r.output]
        /\ UNCHANGED <<params, serialized, calls, omp>>

InitData ==
  /\ \E e \in DataInstances : inst = e.inst /\ params = e.params
  /\ Constructed

NextData == DataCall

SpecData == InitData /\ [][NextData]_vars

\* ------------------------------------------------------------ SpecConc
\* Calls of operator() on one instance from several threads, step by step
\* through lines 261-268; calls[t] is thread t's call: its position pc, its
\* plan, and the views it holds (the local Tensors of lines 263-268).
Threads == {1, 2}

ConcInstances == StrategyInstances(ExplicitPad)

ConcShapes == {<<1, 1, 2>>, <<1, 4, MaxWidth>>}

ViewOrder ==
  <<"transformed_input", "transformed_output", "padded_input",
    "padded_output">>

\* the size the call requests for its k-th view
RequestedSize(p, k) ==
  CASE k = 1 -> p.transformed_input_size
    [] k = 2 -> p.transformed_output_size
    [] k = 3 -> p.padded_input_size
    [] k = 4 -> p.padded_output_size

\* whether thread t may enter operator(): callers that serialize their
\* calls wait until no other call is in flight
MayEnter(t) ==
  serialized => \A u \in Threads \ {t} : calls[u].pc = "idle"

\* faulty variant: the views outlive the call
ViewsAfterReturn_kept(views) == views

\* the views are locals of operator() and end with the call
ViewsAfterReturn(views) == <<>>

\* thread t calls operator(): lines 102-260 use no shared state
Enter(t) ==
  \E s \in ConcShapes :
    LET c == Config(inst, s[1], inst.FC, s[2], s[3])
    IN  /\ calls[t].pc = "idle"
        /\ MayEnter(t)
        /\ ValidConfig(c) /\ ChecksPass(c)
        /\ calls' = [calls EXCEPT ![t] =
                       [pc |-> "Rewind", plan |-> Plan(c), views |-> <<>>]]
        /\ UNCHANGED <<inst, scratch_, is_filter_transformed_,
                       transformed_filter_, transform_count, call, params,
                       mem, io, serialized, omp>>

\* line 261: scratch_->Rewind()
RewindStep(t) ==
  /\ calls[t].pc = "Rewind"
  /\ scratch_' = [scratch_ EXCEPT !.offset = 0]
  /\ calls' = [calls EXCEPT ![t].pc = "GrowSize"]
  /\ UNCHANGED <<inst, is_filter_transformed_, transformed_filter_,
                 transform_count, call, params, mem, io, serialized, omp>>

\* line 262: scratch_->GrowSize(total_scratch_size)
GrowStep(t) ==
  /\ calls[t].pc = "GrowSize"
  /\ scratch_' =
       [scratch_ EXCEPT
          !.size = Max(@, calls[t].plan.total_scratch_size)]
  /\ calls' = [calls EXCEPT ![t].pc = "Scratch"]
  /\ UNCHANGED <<inst, is_filter_transformed_, transformed_filter_,
                 transform_count, call, params, mem, io, serialized, omp>>

\* lines 263-268: the next of the four views is handed out at the cursor
ScratchStep(t) ==
  /\ calls[t].pc = "Scratch"
  /\ LET k == Len(calls[t].views) + 1
         size == RequestedSize(calls[t].plan, k)
     IN  /\ scratch_' = [scratch_ EXCEPT !.offset = @ + size]
         /\ calls' =
              [calls EXCEPT
                 ![t].views = Append(@, [name |-> ViewOrder[k],
                                         off |-> scratch_.offset,
                                         size |-> size]),
                 ![t].pc = IF k = 4 THEN "conv_func" ELSE "Scratch"]
  /\ UNCHANGED <<inst, is_filter_transformed_, transformed_filter_,
                 transform_count, call, params, mem, io, serialized, omp>>

\* lines 271-408: the strategy runs on the views, then the call returns
ReturnStep(t) ==
  /\ calls[t].pc = "conv_func"
  /\ is_filter_transformed_' =
       FlagAfterConv(calls[t].plan, is_filter_transformed_)
  /\ calls' = [calls EXCEPT ![t].pc = "idle",
                            ![t].views = ViewsAfterReturn(@)]
  /\ UNCHANGED <<inst, scratch_, transformed_filter_, transform_count,
                 call, params, mem, io, serialized, omp>>

InitConc ==
  /\ inst \in ConcInstances
  /\ params = NoParams
  /\ scratch_ = [offset |-> 0, size |-> 0]
  /\ is_filter_transformed_ = FALSE
  /\ transformed_filter_ = <<>>
  /\ transform_count = 0
  /\ call = NoCall
  /\ mem = <<>>
  /\ io = NoIO
  /\ serialized \in BOOLEAN
  /\ calls = [t \in Threads |-> [pc |-> "idle", plan |-> <<>>,
                                 views |-> <<>>]]
  /\ omp = NoRegion

NextConc ==
  \E t \in Threads :
    \/ Enter(t)
    \/ RewindStep(t)
    \/ GrowStep(t)
    \/ ScratchStep(t)
    \/ ReturnStep(t)

SpecConc == InitConc /\ [][NextConc]_vars

\* ------------------------------------------------------------ SpecOmp
\* the loop nests under "#pragma omp parallel for collapse(2)", one element
\* access per step: the iterations (b, c) are handed to the threads in any
\* order, and a thread runs the body of its iteration in program order

\* line 38: the output element of Conv2dNCHW
out_offset(b, m, h, w, out_channels, out_height, out_width) ==
  ((b * out_channels + m) * out_height + h) * out_width + w

\* lines 45-46
in_offset(b, c, ih, iw, in_channels, in_height, in_width) ==
  ((b * in_channels + c) * in_height + ih) * in_width + iw

\* lines 47-49
filter_offset(m, c, kh, kw, in_channels, filter_height, filter_width) ==
  (((m * in_channels) + c) * filter_height + kh) * filter_width + kw

\* lines 384-385: the destination row of the memcpy
unpack_dst(b, c, h, channels, height, width) ==
  b * channels * height * width + c * height * width + h * width

\* lines 386-389: the source row of the memcpy
unpack_src(b, c, h, channels, extra_height, extra_width) ==
  b * channels * extra_height * extra_width
    + c * extra_height * extra_width + h * extra_width

\* faulty variant: the batch index does not enter the offset
bias_offset_no_batch(b, c, i, channels, height, width) ==
  c * height * width + i

\* line 401: the element the bias is added to
bias_offset(b, c, i, channels, height, width) ==
  (b * channels + c) * height * width + i

\* lines 36-50: the accesses of iteration (b, m) of Conv2dNCHW in program
\* order, each output[out_offset] += input[in_offset] * filter[filter_offset]
ConvIteration(input, filter, d, b, m) ==
  LET per == d.in_channels * d.filter_height * d.filter_width
  IN  Buffer([k \in 1..(d.out_height * d.out_width * per) |->
        LET kw == (k - 1) % d.filter_width
            kh == ((k - 1) \div d.filter_width) % d.filter_height
            c == ((k - 1) \div (d.filter_width * d.filter_height))
                   % d.in_channels
            w == ((k - 1) \div per) % d.out_width
            h == (k - 1) \div (per * d.out_width)
            ih == h * d.stride_h + kh * d.dilation_h
            iw == w * d.stride_w + kw * d.dilation_w
        IN  [off |-> out_offset(b, m, h, w, d.out_channels, d.out_height,
                                d.out_width),
             rmw |-> TRUE,
             val |-> Read(input,
                          in_offset(b, c, ih, iw, d.in_channels,
                                    d.in_height, d.in_width), 0)
                       * filter[filter_offset(m, c, kh, kw, d.in_channels,
                                              d.filter_height,
                                              d.filter_width) + 1]]])

\* lines 381-392: the accesses of iteration (b, c) of the unpacking loop,
\* the memcpy of a row as one store per float
UnpackIteration(p, pad_output_data, b, c) ==
  Buffer([k \in 1..(p.height * p.width) |->
    LET w == (k - 1) % p.width
        h == (k - 1) \div p.width
    IN  [off |-> unpack_dst(b, c, h, p.channels, p.height, p.width) + w,
         rmw |-> FALSE,
         val |-> pad_output_data[
                   unpack_src(b, c, h, p.channels, p.extra_output_height,
                              p.extra_output_width) + w + 1]]])

\* lines 400-402: the accesses of iteration (b, c) of the bias loop
BiasIteration(p, bias_data, b, c) ==
  Buffer([k \in 1..(p.height * p.width) |->
    [off |-> bias_offset(b, c, k - 1, p.channels, p.height, p.width),
     rmw |-> TRUE,
     val |-> bias_data[c + 1]]])

\* the body of iteration it = <<b, c>> of the loop nest r
IterationOps(r, it) ==
  CASE r.kind = "conv" -> ConvIteration(r.input, r.filter, r.d, it[1], it[2])
    [] r.kind = "unpack" -> UnpackIteration(r.p, r.src, it[1], it[2])
    [] r.kind = "bias" -> BiasIteration(r.p, r.bias, it[1], it[2])

\* a thread of the team that holds no iteration
IdleThread ==
  [it |-> <<>>, ops |-> <<>>, pos |-> 0, loaded |-> FALSE, reg |-> 0]

\* a loop nest of a call of instance i with plan p, at its entry: the
\* buffers it reads, the buffer it writes and its iteration space
Region(kind, i, p) ==
  LET size == p.batch * p.channels * p.height * p.width
      output == IF kind = "bias" THEN InputData(1, size)
                ELSE Buffer([e \in 1..size |-> 0])
  IN  [active |-> TRUE, kind |-> kind, p |-> p,
       d |-> Dims(p.batch, p.extra_input_height, p.extra_input_width,
                  p.input_channels, p.extra_output_height,
                  p.extra_output_width, p.channels, p.filter_h, p.filter_w,
                  p.stride_h, p.stride_w, p.dilation_h, p.dilation_w),
       input |-> InputData(1, p.batch * p.input_channels
                                * p.extra_input_height
                                * p.extra_input_width),
       filter |-> FilterData(1, i.M * i.FC * i.KH * i.KW),
       bias |-> BiasData("ramp", i.M),
       src |-> InputData(1, p.batch * p.channels * p.extra_output_height
                              * p.extra_output_width),
       before |-> output, output |-> output,
       pending |-> {<<b, c>> : b \in 0..(p.batch - 1),
                               c \in 0..(p.channels - 1)},
       thr |-> [t \in Threads |-> IdleThread],
       writers |-> Buffer([e \in 1..size |-> {}]),
       stray |-> FALSE, overlapped |-> FALSE, done |-> FALSE]

\* generic instances: a 1x1 filter of stride 2 and a 3x1 filter
GenericInstances ==
  {Instance(2, 1, 1, 1, 2, 2, 1, 1, ValidPad),
   Instance(2, 1, 3, 1, 1, 1, 1, 1, ValidPad)}

\* fused 3x3 instances, whose output is computed on extended extents
TiledInstances ==
  {Instance(2, 1, 3, 3, 1, 1, 1, 1, ValidPad),
   Instance(2, 1, 3, 3, 2, 2, 1, 1, SamePad)}

\* the loop nests tracked: Conv2dNCHW of a generic call, the unpacking
\* loop of a call with extended output extents, the bias loop of both
Regions ==
  {[inst |-> e.i, region |-> Region(kind, e.i, e.p)] :
     kind \in {"conv", "bias"},
     e \in {[i |-> i, p |-> Plan(Config(i, n, i.FC, 3, 2))] :
              i \in GenericInstances, n \in 1..MaxBatch}}
    \cup
  {[inst |-> e.i, region |-> Region(kind, e.i, e.p)] :
     kind \in {"unpack", "bias"},
     e \in {[i |-> i, p |-> Plan(Config(i, n, i.FC, 3, 3))] :
              i \in TiledInstances, n \in 1..MaxBatch}}

\* the variables a loop nest leaves alone
OutsideRegion ==
  <<inst, scratch_, is_filter_transformed_, transformed_filter_,
    transform_count, call, params, mem, io, serialized, calls>>

\* a thread of the team is handed an iteration no thread has run
TakeIteration(t) ==
  /\ omp.thr[t].it = <<>>
  /\ \E it \in omp.pending :
       omp' = [omp EXCEPT
                 !.pending = @ \ {it},
                 !.thr[t] = [it |-> it, ops |-> IterationOps(omp, it),
                             pos |-> 1, loaded |-> FALSE, reg |-> 0]]
  /\ UNCHANGED OutsideRegion

\* the read of output[off] of a "+="
LoadStep(t) ==
  LET th == omp.thr[t]
  IN  /\ th.it # <<>> /\ th.pos <= Len(th.ops)
      /\ th.ops[th.pos].rmw /\ ~th.loaded
      /\ omp' = [omp EXCEPT
                   !.thr[t].loaded = TRUE,
                   !.thr[t].reg = Read(omp.output, th.ops[th.pos].off, 0),
                   !.overlapped =
                     @ \/ \E u \in Threads \ {t} : omp.thr[u].loaded]
      /\ UNCHANGED OutsideRegion

\* the write of output[off]: of the sum for a "+=", of the source float
\* for the memcpy; after its last access the thread is idle again
StoreStep(t) ==
  LET th == omp.thr[t]
  IN  /\ th.it # <<>> /\ th.pos <= Len(th.ops)
      /\ th.ops[th.pos].rmw => th.loaded
      /\ LET op == th.ops[th.pos]
             inside == op.off >= 0 /\ op.off < Len(omp.output)
             value == IF op.rmw THEN th.reg + op.val ELSE op.val
         IN  omp' = [omp EXCEPT
                       !.output = IF inside
                                  THEN [@ EXCEPT ![op.off + 1] = value]
                                  ELSE @,
                       !.writers = IF inside
                                   THEN [@ EXCEPT ![op.off + 1] =
                                           @ \cup {th.it}]
                                   ELSE @,
                       !.stray = @ \/ ~inside,
                       !.thr[t] = IF th.pos = Len(th.ops) THEN IdleThread
                                  ELSE [th EXCEPT !.pos = @ + 1,
                                                  !.loaded = FALSE]]
      /\ UNCHANGED OutsideRegion

\* the implicit barrier at the end of the parallel loop
Join ==
  /\ ~omp.done
  /\ omp.pending = {}
  /\ \A t \in Threads : omp.thr[t].it = <<>>
  /\ omp' = [omp EXCEPT !.done = TRUE]
  /\ UNCHANGED OutsideRegion

InitOmp ==
  /\ \E e \in Regions : inst = e.inst /\ omp = e.region
  /\ params = NoParams
  /\ scratch_ = [offset |-> 0, size |-> 0]
  /\ is_filter_transformed_ = FALSE
  /\ transformed_filter_ = <<>>
  /\ transform_count = 0
  /\ call = NoCall
  /\ mem = <<>>
  /\ io = NoIO
  /\ serialized = TRUE
  /\ calls = <<>>

NextOmp ==
  \/ \E t \in Threads : TakeIteration(t)
  \/ \E t \in Threads : LoadStep(t)
  \/ \E t \in Threads : StoreStep(t)
  \/ Join

SpecOmp == InitOmp /\ [][NextOmp]_vars

\* ------------------------------------------------------------ SpecSize
\* the Winograd scratch sizing of calls on large shapes. A value of a C++
\* integer type is held as its bytes, least significant first, so that
\* each type keeps its width: int 4 bytes, index_t 8 bytes, size_t 4 or 8
\* bytes with the target.

\* the n low bytes of a small non-negative value
RECURSIVE Bytes(_, _)
Bytes(x, n) ==
  IF n = 0 THEN <<>> ELSE <<x % 256>> \o Bytes(x \div 256, n - 1)

\* the product of a value and a small non-negative factor, in the value's
\* width: the bytes that do not fit are dropped
RECURSIVE MulBytes(_, _, _)
MulBytes(bytes, m, carry) ==
  IF bytes = <<>> THEN <<>>
  ELSE <<(Head(bytes) * m + carry) % 256>>
         \o MulBytes(Tail(bytes), m, (Head(bytes) * m + carry) \div 256)

\* conversion of a signed value to a type of n >= Len(bytes) bytes
SignExtend(bytes, n) ==
  bytes \o [i \in 1..(n - Len(bytes)) |->
              IF bytes[Len(bytes)] >= 128 THEN 255 ELSE 0]

\* conversion of an unsigned value to a type of n >= Len(bytes) bytes
ZeroExtend(bytes, n) == bytes \o [i \in 1..(n - Len(bytes)) |-> 0]

\* std::accumulate(first, last, 1, std::multiplies<index_t>()): acc =
\* op(acc, *first) converts the int accumulator to index_t, multiplies, and
\* stores the product back into the int
RECURSIVE AccumulateWide(_, _, _)
AccumulateWide(shape, i, acc) ==
  IF i > Len(shape) THEN acc
  ELSE AccumulateWide(shape, i + 1,
                      SubSeq(MulBytes(SignExtend(acc, 8), shape[i], 0),
                             1, 4))

\* lines 237-246: the int result times sizeof(float) is computed in size_t
\* and stored into an index_t
transformed_size_wide(shape, size_t_bytes) ==
  ZeroExtend(MulBytes(SignExtend(AccumulateWide(shape, 1, Bytes(1, 4)),
                                 size_t_bytes),
                      SizeofFloat, 0),
             8)

\* Winograd instances with few and with many channels
WideInstances ==
  {Instance(m, fc, 3, 3, 1, 1, 1, 1, SamePad) :
     m \in {WinogradMinChannels, 512, 1024},
     fc \in {WinogradMinChannels, 512, 1024}}

WideBatches == {1, 64}

WideShapes == {<<6, 6>>, <<192, 192>>, <<190, 1000>>, <<1092, 1092>>}

\* lines 102-132, 178-203, 236-248 of a call of operator(): the output
\* shape, the Winograd tiling and the two transformed scratch sizes
SizeCall ==
  /\ call.result = "none"
  /\ \E n \in WideBatches, hw \in WideShapes, size_t_bytes \in {4, 8} :
       LET c == Config(inst, n, inst.FC, hw[1], hw[2])
           pads == paddings(c)
           os == output_shape(c, pads)
           branch ==
             PlanBranch(use_winograd(c.KH, c.KW, c.SH, c.SW, c.DH, c.DW,
                                     c.C, os[2]),
                        use_neon_3x3_s1(c.KH, c.KW, c.SH, c.SW, c.DH, c.DW),
                        use_neon_3x3_s2(c.KH, c.KW, c.SH, c.SW, c.DH, c.DW))
           eoh == extra_output_height(branch, os[3])
           eow == extra_output_width(branch, os[4])
           tiles == tile_count(eoh, eow)
           tis == transformed_shape(branch, os[1], c.C, tiles)
           tos == transformed_shape(branch, os[1], os[2], tiles)
       IN  /\ ValidConfig(c) /\ ChecksPass(c)
           /\ call' =
                [NoCall EXCEPT
                   !.c = c,
                   !.result = "sized",
                   !.plan =
                     [planned |-> branch, batch |-> os[1],
                      input_channels |-> c.C, channels |-> os[2],
                      extra_output_height |-> eoh,
                      extra_output_width |-> eow,
                      tile_count |-> tiles,
                      transformed_input_shape |-> tis,
                      transformed_output_shape |-> tos,
                      size_t_bytes |-> size_t_bytes,
                      transformed_input_size |->
                        transformed_size_wide(tis, size_t_bytes),
                      transformed_output_size |->
                        transformed_size_wide(tos, size_t_bytes)]]
  /\ UNCHANGED <<inst, scratch_, is_filter_transformed_,
                 transformed_filter_, transform_count, params, mem, io,
                 serialized, calls, omp>>

InitSize == inst \in WideInstances /\ params = NoParams /\ Constructed

NextSize == SizeCall

SpecSize == InitSize /\ [][NextSize]_vars

\* ------------------------------------------------------------ claims
Returned == call.result = "returned"

\* C2: the strategy is a function of (filter_h, filter_w, stride_h,
\* stride_w, dilation_h, dilation_w, in_channels, out_channels) alone, picked
\* by first match in the order Winograd (3x3, stride 1, dilation 1, both
\* channel counts >= 8), fused 3x3 stride-1, fused 3x3 stride-2, fused 1x1
\* stride-1, generic; and the tiling planned and the scratch sized are those
\* of the strategy that is executed.
C2_FirstMatch(fh, fw, sh, sw, dh, dw, ic, oc) ==
  LET f33 == fh = 3 /\ fw = 3
      unit == dh = 1 /\ dw = 1
  IN  IF f33 /\ sh = 1 /\ sw = 1 /\ unit /\ ic >= 8 /\ oc >= 8 THEN "winograd"
      ELSE IF f33 /\ sh = 1 /\ sw = 1 /\ unit THEN "neon_3x3_s1"
      ELSE IF f33 /\ sh = 2 /\ sw = 2 /\ unit THEN "neon_3x3_s2"
      ELSE IF fh = 1 /\ fw = 1 /\ sh = 1 /\ sw = 1 /\ unit THEN "neon_1x1_s1"
      ELSE "generic"

C2_StrategySelection ==
  Returned =>
    LET c == call.c
        expected == C2_FirstMatch(c.KH, c.KW, c.SH, c.SW, c.DH, c.DW, c.C, c.M)
    IN  /\ call.plan.executed = expected
        /\ call.plan.planned =
             (IF expected \in {"neon_1x1_s1", "generic"} THEN "none"
              ELSE expected)
        /\ call.plan.sized =
             (IF expected = "winograd" THEN "winograd" ELSE "none")

\* a 3x3 stride-1 call with 7 input and 8 output channels: just below the
\* Winograd threshold, the fused 3x3 stride-1 strategy is planned and run
C2_Witness ==
  /\ Returned
  /\ call.c.KH = 3 /\ call.c.KW = 3 /\ call.c.SH = 1 /\ call.c.SW = 1
  /\ call.c.DH = 1 /\ call.c.DW = 1
  /\ call.c.C = 7 /\ call.c.M = 8
  /\ call.plan.executed = "neon_3x3_s1"

\* C4: over serialized calls with an unchanged filter the filter transform
\* executes exactly once, on the first Winograd call: the flag starts false,
\* WinoGradConv3x3s1 is passed false only on that call, the flag is true
\* after it and never returns to false, and transformed_filter_ is resized
\* only while the flag is false.
C4_CacheState ==
  /\ transform_count <= 1
  /\ is_filter_transformed_ <=> transform_count = 1
  /\ is_filter_transformed_ <=> transformed_filter_ # <<>>
  /\ call.result = "none" => ~is_filter_transformed_
  /\ (Returned /\ call.plan.executed = "winograd") =>
       /\ is_filter_transformed_
       /\ call.resized <=> ~call.flag_passed
       /\ transformed_filter_ =
            <<in_tile_area, inst.M, inst.FC>>
  /\ (Returned /\ call.plan.executed # "winograd") => ~call.resized

C4_CacheStep ==
  /\ is_filter_transformed_ => is_filter_transformed_'
  /\ is_filter_transformed_ =>
       /\ transformed_filter_' = transformed_filter_
       /\ transform_count' = transform_count
       /\ (call'.result = "returned" /\ call'.plan.executed = "winograd")
            => (call'.flag_passed /\ ~call'.resized)
  /\ (~is_filter_transformed_ /\ call'.result = "returned"
        /\ call'.plan.executed = "winograd") =>
       /\ ~call'.flag_passed /\ call'.resized
       /\ transform_count' = transform_count + 1

C4_TransformOnce == []C4_CacheState /\ [][C4_CacheStep]_vars

\* a later Winograd call: the flag was passed as true, nothing was resized
\* and the transform has still run once
C4_Witness ==
  /\ Returned /\ call.plan.executed = "winograd"
  /\ call.flag_passed /\ ~call.resized
  /\ transform_count = 1

\* C5: when growing the arena fails, the call ends with a failure result
\* for the caller: no view is handed out and no strategy runs after it.
GrowthFailed ==
  \E i \in 1..Len(call.log) : call.log[i] = "GrowSizeFailed"

C5_GrowthFailureEndsCall ==
  GrowthFailed =>
    /\ call.result = "failure"
    /\ \A i \in 1..Len(call.log) : call.log[i] \notin {"Scratch", "conv_func"}
    /\ call.views = <<>>

\* C6: a call whose filter input-channel count differs from the input's
\* channel count is rejected by a fatal check before the arena is rewound or
\* grown, before any view is handed out and before any strategy runs, and
\* leaves the arena's cursor and capacity and the filter-transform cache as
\* they were.
C6_RejectedState ==
  /\ (call.result # "none" /\ call.c.FC # call.c.C) => call.result = "fatal"
  /\ call.result = "fatal" =>
       /\ call.c.FC # call.c.C
       /\ call.log = <<"MACE_CHECK">>
       /\ call.views = <<>>
       /\ call.touched = {}

C6_RejectedStep ==
  call'.result = "fatal" =>
    /\ scratch_' = scratch_
    /\ is_filter_transformed_' = is_filter_transformed_
    /\ transformed_filter_' = transformed_filter_
    /\ transform_count' = transform_count

C6_MismatchRejected == []C6_RejectedState /\ [][C6_RejectedStep]_vars

\* a call rejected on an instance whose arena has grown and whose filter
\* has been transformed by earlier calls
C6_Witness ==
  /\ call.result = "fatal"
  /\ call.c.FC # call.c.C
  /\ scratch_.size > 0 /\ scratch_.offset > 0
  /\ is_filter_transformed_

\* C7: in every call the arena is rewound, then grown so that its capacity
\* is at least total_scratch_size, then hands out exactly the four views
\* transformed_input, transformed_output, padded_input, padded_output at
\* consecutive offsets from 0; they do not overlap, lie within the capacity
\* and their sizes sum to total_scratch_size, where the cursor ends.
ViewsInOrder ==
  /\ Len(call.views) = 4
  /\ [i \in 1..4 |-> call.views[i].name] =
       <<"transformed_input", "transformed_output",
         "padded_input", "padded_output">>
  /\ call.views[1].off = 0
  /\ \A i \in 1..3 :
       call.views[i + 1].off = call.views[i].off + call.views[i].size
  /\ \A i \in 1..4 : call.views[i].size >= 0
  /\ \A i \in 1..4, j \in 1..4 :
       i < j => call.views[i].off + call.views[i].size <= call.views[j].off
  /\ call.views[1].size + call.views[2].size + call.views[3].size
       + call.views[4].size = call.plan.total_scratch_size
  /\ scratch_.offset = call.plan.total_scratch_size

C7_ArenaDiscipline ==
  Returned =>
    /\ call.log = <<"Rewind", "GrowSize", "Scratch", "Scratch", "Scratch",
                    "Scratch", "conv_func">>
    /\ scratch_.size >= call.plan.total_scratch_size
    /\ ViewsInOrder
    /\ \A i \in 1..4 :
         call.views[i].off + call.views[i].size <= scratch_.size

\* what does hold of every returned call: the order of the arena's
\* operations and the layout of the four views, and the capacity bound
\* whenever the growth succeeded
C7_LayoutOfReturnedCall ==
  Returned =>
    /\ SubSeq(call.log, 3, 7) =
         <<"Scratch", "Scratch", "Scratch", "Scratch", "conv_func">>
    /\ call.log[1] = "Rewind"
    /\ call.log[2] \in {"GrowSize", "GrowSizeFailed"}
    /\ ViewsInOrder
    /\ call.log[2] = "GrowSize" =>
         scratch_.size >= call.plan.total_scratch_size

\* C10: the padded-input component has nonzero size only if the extended
\* input extents differ from the natural padded extents (input + resolved
\* padding), is zero-sized and never dereferenced when they are equal, and
\* any component the selected strategy does not read or write is zero-sized.
ViewSize(name) ==
  LET i == CHOOSE j \in 1..Len(call.views) : call.views[j].name = name
  IN  call.views[i].size

ExtendedBeyondNaturalPadding ==
  \/ call.plan.extra_input_height # call.plan.padded_input_height
  \/ call.plan.extra_input_width # call.plan.padded_input_width

ExtendedBeyondInput ==
  \/ call.plan.extra_input_height # call.plan.input_height
  \/ call.plan.extra_input_width # call.plan.input_width

ViewNames ==
  {"transformed_input", "transformed_output", "padded_input", "padded_output"}

Tracked == Returned /\ params.tracked

\* the input zero-padded by before = total >> 1 and after = total - before
\* in each spatial dimension, built cell by cell from the input tensor
C1_ZeroPadded ==
  LET p == call.plan
      top == p.paddings[1] \div 2
      left == p.paddings[2] \div 2
  IN  Buffer([o \in 1..(p.input_batch * p.input_channels
                          * p.padded_input_height * p.padded_input_width) |->
         LET w == (o - 1) % p.padded_input_width
             h == ((o - 1) \div p.padded_input_width) % p.padded_input_height
             pl == (o - 1) \div (p.padded_input_width * p.padded_input_height)
         IN  IF /\ h >= top /\ h < top + p.input_height
                /\ w >= left /\ w < left + p.input_width
             THEN io.input[(pl * p.input_height + (h - top)) * p.input_width
                             + (w - left) + 1]
             ELSE 0])

\* Conv2dNCHW of the zero-padded input over the logical output extents
C1_Reference ==
  LET p == call.plan
  IN  Conv2dNCHW(C1_ZeroPadded, params.filter,
                 Dims(p.batch, p.padded_input_height, p.padded_input_width,
                      p.input_channels, p.height, p.width, p.channels,
                      p.filter_h, p.filter_w, p.stride_h, p.stride_w,
                      p.dilation_h, p.dilation_w),
                 Clear(io.conv_output), params.junk)

\* C1: for every valid configuration and every strategy, the value at every
\* logical output position before bias and activation equals the generic
\* direct convolution of the zero-padded input.
C1_FastPathsAgree == Tracked => io.conv_output = C1_Reference

\* what does hold: every call agrees with the reference except a fused 1x1
\* call under nonzero padding, whose kernel is handed the unpadded input
\* with the output's extents
C1_AgreeUnlessPadded1x1 ==
  (Tracked /\ ~(call.plan.executed = "neon_1x1_s1"
                  /\ call.plan.paddings # <<0, 0>>))
    => io.conv_output = C1_Reference

\* C3: after any earlier calls, a call with an all-zero input, any filter, no
\* bias and identity activation yields an all-zero output: the cells of the
\* padded input outside the copied region are zero and the buffer handed to
\* the strategy is zero before it runs.
AllZero(buf) == \A i \in 1..Len(buf) : buf[i] = 0

C3_PaddingCellsZero ==
  LET p == call.plan
      eh == p.extra_input_height
      ew == p.extra_input_width
  IN  \A o \in 1..Len(io.padded_input) :
        LET w == (o - 1) % ew
            h == ((o - 1) \div ew) % eh
        IN  (h < p.pad_top \/ h >= p.pad_top + p.input_height
               \/ w < p.pad_left \/ w >= p.pad_left + p.input_width)
              => io.padded_input[o] = 0

C3_ZeroInputZeroOutput ==
  Tracked =>
    /\ C3_PaddingCellsZero
    /\ AllZero(io.handed_output)
    /\ (io.seed = 0 /\ params.bias = <<>> /\ params.activation = "NOOP")
         => AllZero(io.output)

\* what does hold: the buffers are zeroed in every call, and the output of a
\* zero input is zero except in a fused 1x1 call under nonzero padding
C3_ZeroUnlessPadded1x1 ==
  Tracked =>
    /\ C3_PaddingCellsZero
    /\ AllZero(io.handed_output)
    /\ (io.seed = 0 /\ params.bias = <<>> /\ params.activation = "NOOP"
          /\ ~(call.plan.executed = "neon_1x1_s1"
                 /\ call.plan.paddings # <<0, 0>>))
         => AllZero(io.output)

\* C8: with an all-zero filter and a bias b every output element before
\* activation equals b[c]: the bias is added exactly once per element and
\* before the activation, and under the clamp into [0, limit] every element
\* of the final output lies in [0, limit].
ChannelOf(o) ==
  ((o - 1) \div (call.plan.height * call.plan.width)) % call.plan.channels

Overlap(v, w) ==
  /\ v.size > 0 /\ w.size > 0
  /\ v.off < w.off + w.size
  /\ w.off < v.off + v.size

\* a view held by thread t overlaps a view held by another thread u
SharedView(t, u) ==
  \E i \in 1..Len(calls[t].views), j \in 1..Len(calls[u].views) :
    Overlap(calls[t].views[i], calls[u].views[j])

\* C9: when the calls on an instance are serialized, no view handed out in
\* one call is in use by another call in flight: at most one call is in
\* flight, a thread outside operator() holds no view, and no two threads
\* hold overlapping views.  (That interleaved calls do reach overlapping
\* views is the reachable state C9_Witness.)
C9_SerializedCallsDontShare ==
  calls # <<>> =>
    /\ \A t \in Threads : calls[t].pc = "idle" => calls[t].views = <<>>
    /\ serialized =>
         /\ \A t \in Threads, u \in Threads :
              t # u => (calls[t].pc = "idle" \/ calls[u].pc = "idle")
         /\ \A t \in Threads, u \in Threads : t # u => ~SharedView(t, u)

\* two interleaved calls: one has all four views and is about to run its
\* strategy, the other has rewound the cursor and been handed a view from
\* offset 0 that overlaps one of them
C9_Witness ==
  /\ calls # <<>>
  /\ ~serialized
  /\ \E t \in Threads, u \in Threads :
       /\ t # u
       /\ calls[t].pc = "conv_func"
       /\ calls[u].pc \in {"Scratch", "conv_func"}
       /\ \E j \in 1..Len(calls[u].views) :
            /\ calls[u].views[j].off = 0
            /\ \E i \in 1..Len(calls[t].views) :
                 Overlap(calls[t].views[i], calls[u].views[j])

\* ------------------------------------------------------------ padding
\* C11: for every strategy and every non-negative total padding, pad_top and
\* pad_left are total >> 1 whatever the tiling; the shortfall between the
\* extended and the natural padded input extents is added to pad_bottom
\* and pad_right only; the four pads are >= 0; the input extent plus its
\* two pads is the extended input extent in each dimension, so the padded
\* input, when it is built, has batch * in_channels * extra_input_height *
\* extra_input_width elements.
C11_PaddingSplit ==
  Returned =>
    LET p == call.plan
        total_h == p.paddings[1]
        total_w == p.paddings[2]
    IN  /\ total_h >= 0 /\ total_w >= 0
        /\ p.pad_top = total_h \div 2
        /\ p.pad_left = total_w \div 2
        /\ p.pad_bottom = (total_h - p.pad_top)
                            + (p.extra_input_height - p.padded_input_height)
        /\ p.pad_right = (total_w - p.pad_left)
                           + (p.extra_input_width - p.padded_input_width)
        /\ p.extra_input_height >= p.padded_input_height
        /\ p.extra_input_width >= p.padded_input_width
        /\ p.pad_top >= 0 /\ p.pad_bottom >= 0
        /\ p.pad_left >= 0 /\ p.pad_right >= 0
        /\ p.input_height + p.pad_top + p.pad_bottom = p.extra_input_height
        /\ p.input_width + p.pad_left + p.pad_right = p.extra_input_width
        /\ p.need_padded_input =>
             p.padded_input_size =
               p.batch * p.input_channels * p.extra_input_height
                 * p.extra_input_width * SizeofFloat

\* a tiled call under an odd total padding whose extended input exceeds
\* the natural padded input in both dimensions
C11_Witness ==
  /\ Returned
  /\ call.plan.planned # "none"
  /\ call.plan.paddings[1] % 2 = 1 /\ call.plan.paddings[2] % 2 = 1
  /\ call.plan.extra_input_height > call.plan.padded_input_height
  /\ call.plan.extra_input_width > call.plan.padded_input_width
  /\ call.plan.pad_bottom > call.plan.paddings[1] - call.plan.pad_top
  /\ call.plan.pad_right > call.plan.paddings[2] - call.plan.pad_left
  /\ call.plan.padded_input_size > 0

\* ------------------------------------------------------------ extents
\* v is the smallest multiple of k that is >= x
SmallestMultiple(v, k, x) == v % k = 0 /\ v >= x /\ v - k < x

\* C12: in both dimensions extra_output >= logical output and extra_input
\* >= natural padded input; Winograd: extra_output is the smallest
\* multiple of 6 >= the logical output and extra_input = max(padded_input,
\* extra_output + 2); fused 3x3 stride-1: the smallest multiple of 2
\* (height) and of 4 (width) and extra_input = max(padded_input,
\* extra_output + 2); fused 3x3 stride-2: extra_output_height is the
\* logical height, extra_output_width the smallest multiple of 4 and
\* extra_input = max(padded_input, (extra_output - 1) * 2 + 3); fused 1x1
\* and generic: the extents are unchanged.
C12_ExtendedExtents ==
  Returned =>
    LET p == call.plan
        eoh == p.extra_output_height
        eow == p.extra_output_width
        eih == p.extra_input_height
        eiw == p.extra_input_width
        pih == p.padded_input_height
        piw == p.padded_input_width
    IN  /\ eoh >= p.height /\ eow >= p.width
        /\ eih >= pih /\ eiw >= piw
        /\ pih = p.input_height + p.paddings[1]
        /\ piw = p.input_width + p.paddings[2]
        /\ p.executed = "winograd" =>
             /\ SmallestMultiple(eoh, 6, p.height)
             /\ SmallestMultiple(eow, 6, p.width)
             /\ eih = (IF pih >= eoh + 2 THEN pih ELSE eoh + 2)
             /\ eiw = (IF piw >= eow + 2 THEN piw ELSE eow + 2)
        /\ p.executed = "neon_3x3_s1" =>
             /\ SmallestMultiple(eoh, 2, p.height)
             /\ SmallestMultiple(eow, 4, p.width)
             /\ eih = (IF pih >= eoh + 2 THEN pih ELSE eoh + 2)
             /\ eiw = (IF piw >= eow + 2 THEN piw ELSE eow + 2)
        /\ p.executed = "neon_3x3_s2" =>
             /\ eoh = p.height
             /\ SmallestMultiple(eow, 4, p.width)
             /\ eih = (IF pih >= (eoh - 1) * 2 + 3
                         THEN pih ELSE (eoh - 1) * 2 + 3)
             /\ eiw = (IF piw >= (eow - 1) * 2 + 3
                         THEN piw ELSE (eow - 1) * 2 + 3)
        /\ p.executed \in {"neon_1x1_s1", "generic"} =>
             /\ eoh = p.height /\ eow = p.width
             /\ eih = pih /\ eiw = piw

\* a fused 3x3 stride-2 call whose width is rounded up to the tile and
\* whose extended input exceeds the natural padded input
C12_Witness ==
  /\ Returned
  /\ call.plan.executed = "neon_3x3_s2"
  /\ call.plan.extra_output_width > call.plan.width
  /\ call.plan.extra_output_height = call.plan.height
  /\ call.plan.extra_input_width > call.plan.padded_input_width

\* ------------------------------------------------------------ parallel loops
\* the loop nest's result when its iterations run one after the other
SequentialResult(r) ==
  CASE r.kind = "conv" -> Conv2dNCHW(r.input, r.filter, r.d, r.before, 0)
    [] r.kind = "unpack" -> Unpack(r.p, r.src, r.before)
    [] r.kind = "bias" -> AddBias(r.p, r.before, r.bias)

\* C13: in Conv2dNCHW, the unpacking loop and the bias loop, two distinct
\* parallel iterations (b, c) never write the same output element and no
\* write leaves the output; once the loop has ended every output element
\* has been written by exactly one iteration, and whatever the
\* interleaving of the iterations the output is that of sequential
\* execution.
C13_ParallelLoops ==
  omp.active =>
    /\ ~omp.stray
    /\ \A e \in 1..Len(omp.writers) : Cardinality(omp.writers[e]) <= 1
    /\ omp.done =>
         /\ \A e \in 1..Len(omp.writers) : Cardinality(omp.writers[e]) = 1
         /\ Len(omp.writers) = Len(omp.output)
         /\ omp.output = SequentialResult(omp)

\* a bias loop of four or more iterations has ended after two threads
\* were between the read and the write of a "+=" at the same time
C13_Witness ==
  /\ omp.active /\ omp.done
  /\ omp.kind = "bias"
  /\ omp.overlapped
  /\ omp.p.batch * omp.p.channels >= 4
  /\ omp.output # omp.before

\* ------------------------------------------------------------ kernel bounds
\* lines 271-375: what the selected kernel is handed - the spatial extents
\* it takes for its input and output, its filter extents, strides and
\* dilations, and the element counts of the two buffers passed
KernelArgs(p) ==
  LET input_elems ==
        p.input_batch * p.input_channels * p.input_height * p.input_width
      output_elems == p.batch * p.channels * p.height * p.width
  IN  IF p.executed = "neon_1x1_s1"
      THEN [in_ext_h |-> p.height, in_ext_w |-> p.width,
            out_ext_h |-> p.height, out_ext_w |-> p.width,
            k_h |-> 1, k_w |-> 1, stride_h |-> 1, stride_w |-> 1,
            dilation_h |-> 1, dilation_w |-> 1,
            input_elems |-> input_elems, output_elems |-> output_elems]
      ELSE [in_ext_h |-> p.extra_input_height,
            in_ext_w |-> p.extra_input_width,
            out_ext_h |-> p.extra_output_height,
            out_ext_w |-> p.extra_output_width,
            k_h |-> p.filter_h, k_w |-> p.filter_w,
            stride_h |-> p.stride_h, stride_w |-> p.stride_w,
            dilation_h |-> p.dilation_h, dilation_w |-> p.dilation_w,
            input_elems |-> IF p.need_padded_input
                            THEN p.padded_input_size \div SizeofFloat
                            ELSE input_elems,
            output_elems |-> IF p.need_padded_output
                             THEN p.padded_output_size \div SizeofFloat
                             ELSE output_elems]

\* the kernel's accesses stay inside the buffers it is handed
KernelInBounds(p) ==
  LET a == KernelArgs(p)
  IN  /\ (a.out_ext_h - 1) * a.stride_h + a.dilation_h * (a.k_h - 1) + 1
           <= a.in_ext_h
      /\ (a.out_ext_w - 1) * a.stride_w + a.dilation_w * (a.k_w - 1) + 1
           <= a.in_ext_w
      /\ a.input_elems = p.batch * p.input_channels * a.in_ext_h * a.in_ext_w
      /\ a.output_elems = p.batch * p.channels * a.out_ext_h * a.out_ext_w

\* C14: for every valid configuration and every selected strategy, with
\* in_ext / out_ext the extents passed to the kernel, (out_ext - 1) *
\* stride + dilation * (k - 1) + 1 <= in_ext in both dimensions, the input
\* buffer passed holds batch * in_channels * in_ext_h * in_ext_w elements
\* and the output buffer passed holds batch * out_channels * out_ext_h *
\* out_ext_w elements - the fused 1x1 path, which is handed the raw input
\* and output tensors with the output's height and width, included.
C14_KernelInBounds == Returned => KernelInBounds(call.plan)

\* the accesses stay inside the buffers handed for every strategy but the
\* fused 1x1 one under a nonzero padding, whose input tensor is smaller
\* than the extents it is read with
C14_InBoundsUnlessPadded1x1 ==
  Returned =>
    \/ KernelInBounds(call.plan)
    \/ /\ call.plan.executed = "neon_1x1_s1"
       /\ call.plan.paddings # <<0, 0>>
       /\ KernelArgs(call.plan).input_elems
            < call.plan.batch * call.plan.input_channels
                * KernelArgs(call.plan).in_ext_h
                * KernelArgs(call.plan).in_ext_w

\* ------------------------------------------------------------ scratch bytes
\* the product of the factors as an index_t
RECURSIVE ExactProduct(_, _)
ExactProduct(factors, i) ==
  IF i > Len(factors) THEN Bytes(1, 8)
  ELSE MulBytes(ExactProduct(factors, i + 1), factors[i], 0)

\* a call whose scratch sizing is tracked in full width
Sized == call.result = "sized"

\* 64 * batch * chans * (extra_output_height / 6) *
\* (extra_output_width / 6), the element count, as an index_t
ExactElements(chans) ==
  ExactProduct(<<64, call.plan.batch, chans,
                 (call.plan.extra_output_height \div 6)
                   * (call.plan.extra_output_width \div 6)>>, 1)

\* 4 times the element count, the byte count, as an index_t
ExactTransformedSize(chans) == MulBytes(ExactElements(chans), 4, 0)

\* the value of an index_t is at most 2^31 - 1
FitsInt(bytes) ==
  bytes[4] < 128 /\ \A i \in 5..Len(bytes) : bytes[i] = 0

\* the value of an index_t is at most 2^(8 * n) - 1
FitsUnsigned(bytes, n) == \A i \in (n + 1)..Len(bytes) : bytes[i] = 0

\* C15: for every Winograd call, transformed_input_size = 4 * 64 * batch *
\* in_channels * tile_count and transformed_output_size = 4 * 64 * batch *
\* out_channels * tile_count with tile_count = (extra_output_height / 6) *
\* (extra_output_width / 6), also when the element count exceeds 2^31 - 1:
\* the running product of the shape is never truncated to a 32-bit int.
C15_ExactScratchSizes ==
  Sized =>
    /\ call.plan.planned = "winograd"
    /\ call.plan.transformed_input_size
         = ExactTransformedSize(call.plan.input_channels)
    /\ call.plan.transformed_output_size
         = ExactTransformedSize(call.plan.channels)

\* the sizes are exact when the element count fits an int and the byte
\* count fits the target's size_t
C15_ExactUnlessWrapped ==
  Sized =>
    \A chans \in {call.plan.input_channels, call.plan.channels} :
      LET size == IF chans = call.plan.input_channels
                  THEN call.plan.transformed_input_size
                  ELSE call.plan.transformed_output_size
      IN  (/\ FitsInt(ExactElements(chans))
           /\ FitsUnsigned(ExactTransformedSize(chans),
                           call.plan.size_t_bytes))
            => size = ExactTransformedSize(chans)

\* on either target a size is wrong when the element count exceeds 2^31 - 1
C15_WrongWhenWrapped ==
  Sized =>
    /\ ~FitsInt(ExactElements(call.plan.input_channels)) =>
         call.plan.transformed_input_size
           # ExactTransformedSize(call.plan.input_channels)
    /\ ~FitsInt(ExactElements(call.plan.channels)) =>
         call.plan.transformed_output_size
           # ExactTransformedSize(call.plan.channels)

====
